---- MODULE Spec2Model ----
(***************************************************************************)
(* The keyboard proxy of opencode-chat (src/src/proxy/KeyboardProxy.ts):   *)
(* one HTTP exchange relayed by the request handler of startKeyboardProxy. *)
(*                                                                         *)
(* Conventions.                                                            *)
(*  - A byte string (a Buffer) is a sequence of numbers 0..255; a          *)
(*    JavaScript string (the handler's `body`) is a sequence of UTF-16     *)
(*    code units.  Header names and values are TLA+ strings.               *)
(*  - A header object (req.headers, proxyRes.headers) is a function from   *)
(*    the lower-cased names it holds to their values.                      *)
(*  - An optional object is a sequence of length 0 or 1.                   *)
(*  - resHead, resBody, resEnded are the calls the proxy makes on `res`    *)
(*    (writeHead, write, end): the response as sent to the client.         *)
(*  - Every action is one event of the Node.js event loop together with    *)
(*    the whole callback the source registers for it.                      *)
(***************************************************************************)
EXTENDS Integers, Sequences, FiniteSets, TLC

VARIABLES
  wireReq,     \* the request as the client sent it: <<>> or <<[method, url, headers]>>
  req,         \* the handler's `req` object after the handler ran (same shape)
  proxyReq,    \* the option objects passed to http.request, one per call
  upstream,    \* the upstream leg: "none", "connecting", "responding",
               \* "complete", "errored", "closed"
  proxyRes,    \* the upstream response head: <<>> or <<[statusCode, headers]>>
  upChunks,    \* the body chunks the upstream produced, in order
  path,        \* the branch taken at line 101: "none", "buffer", "stream"
  body,        \* the handler's `body` string
  piped,       \* proxyRes.pipe(res) is set up and flowing
  endPending,  \* proxyRes has been ended and its 'end' callback is queued
  resHead,     \* heads written with res.writeHead: a sequence of [statusCode, headers]
  resBody,     \* body chunks written on res (res.write / res.end(body))
  resEnded,    \* res.end() was called
  clientOpen,  \* the client socket of the exchange is open
  rewrites,    \* how many times the script was injected
  uncaught,    \* a callback threw (ERR_HTTP_HEADERS_SENT)
  tunnels,     \* the upgrade tunnels: one record per connection (see NoTunnel)
  call,        \* startKeyboardProxy's call: <<>> before it, else <<arg>> where
               \* arg is the proxyPort argument, <<>> when it is omitted
  proxyPort,   \* the parameter variable proxyPort (line 79, assigned at 165)
  listens,     \* the ports passed to server.listen, one per call
  server,      \* the http.Server: "new", "binding", "listening", "failed",
               \* "closed", "exited"
  boundPort,   \* the port of server.address() once the server is bound
  errorListener, \* the 'error' listener of the server: "fallback", "reject"
  promise,     \* the returned promise: "pending", "resolved", "rejected"
  settleCalls, \* the calls of resolve and reject, in order
  bindErrors,  \* the codes of the 'error' events of the server while it binds
  result,      \* the value the promise resolved with: <<>> or <<[port]>>
  started,     \* ServerManager.start: "new", "probing" (awaiting
               \* isServerAlive), "reusing", "spawned", "returned"
  resolved,    \* the flag `resolved` of start (line 70)
  child,       \* the spawned process: "none", "running", "killed" (running,
               \* kill() was called), "failed", "exited"
  exitCode,    \* the code of the 'exit' event: "none", "null", "0", "1"
  timer,       \* the 5 s timer of line 110: "none", "armed", "fired"
  serve,       \* serveViaProxy: "none", "awaiting" (at line 31), "done"
  serveUrl,    \* the serverUrl argument of serveViaProxy ("" before the call)
  serverProcess, \* the field this.serverProcess: "undefined" or "set"
  proxyServer, \* the field this.proxyServer: 0 for undefined, else k for the
               \* server started by the manager's k-th call of start
  providerCalls, \* the calls made on the view provider: [fn, arg] in order
  disposes,    \* how many times dispose() was called
  earlier      \* the servers of the earlier calls of start, one each: "new"
               \* (none was started), "listening", "failed" or "closed"

exchangeVars == <<wireReq, req, proxyReq, upstream, proxyRes, upChunks, path,
                  body, piped, endPending, resHead, resBody, resEnded,
                  clientOpen, rewrites, uncaught>>

listenVars == <<call, proxyPort, listens, server, boundPort, errorListener,
                promise, settleCalls, bindErrors, result>>

managerVars == <<started, resolved, child, exitCode, timer, serve, serveUrl,
                 serverProcess, proxyServer, providerCalls, disposes,
                 earlier>>

vars == <<exchangeVars, tunnels, listenVars, managerVars>>

----------------------------------------------------------------------------
(* Bounds and input domains                                                *)

\* The number of 'data' events of one upstream response.
MaxChunks == 2

\* startKeyboardProxy's targetPort argument.
targetPort == 4096

\* "</head>"
HeadTag == <<60, 47, 104, 101, 97, 100, 62>>

\* The chunks an upstream may produce: the tag, the tag cut in two, and the
\* two bytes of U+00E9 (0xC3 0xA9) together and apart.
Chunks ==
  { HeadTag,
    <<60, 47, 104, 101>>,
    <<97, 100, 62>>,
    <<195, 169>>,
    <<195>>,
    <<169>> }

\* Request lines a client may send.
RequestLines == { <<"GET", "/">>, <<"POST", "/app?x=1">> }

\* Headers a client may send, with the value of each: a cookie always, a
\* host and an accept-encoding or not.
ClientHeaderValue(n) ==
  CASE n = "host" -> "localhost:3000"
    [] n = "accept-encoding" -> "gzip, br"
    [] OTHER -> "sid=1"

ClientHeaderSets ==
  { [n \in S \cup {"cookie"} |-> ClientHeaderValue(n)] :
      S \in SUBSET {"host", "accept-encoding"} }

ClientRequests ==
  { [method |-> l[1], url |-> l[2], headers |-> h] :
      l \in RequestLines, h \in ClientHeaderSets }

\* Headers an upstream may send, with the value of each: either policy
\* header or both, a body sent chunked or the entity headers of a body of
\* known length (a length that the rewrite makes wrong, an encoding, a tag),
\* and a content type or none.
ContentTypes == {"text/html; charset=utf-8", "application/json"}

EntityHeaders == {"content-length", "content-encoding", "etag"}

PolicyHeaders ==
  {"content-security-policy", "content-security-policy-report-only"}

ResponseHeaderValue(n) ==
  CASE n = "content-length" -> "7"
    [] n = "content-encoding" -> "identity"
    [] n = "content-security-policy" -> "default-src 'none'"
    [] n = "content-security-policy-report-only" -> "script-src 'self'"
    [] n = "transfer-encoding" -> "chunked"
    [] OTHER -> "W/1"

ResponseHeaderNames ==
  { P \cup E : P \in SUBSET PolicyHeaders,
               E \in {{"transfer-encoding"}, EntityHeaders} }

ResponseHeaderSets ==
  { [n \in S |-> ResponseHeaderValue(n)] : S \in ResponseHeaderNames }
  \cup
  { [n \in S \cup {"content-type"} |->
       IF n = "content-type" THEN t ELSE ResponseHeaderValue(n)] :
     S \in ResponseHeaderNames, t \in ContentTypes }

Statuses == {200, 404}

UpstreamHeads == [statusCode : Statuses, headers : ResponseHeaderSets]

----------------------------------------------------------------------------
(* Strings, buffers and header objects                                     *)

\* String.prototype.includes, on TLA+ strings and on code-unit sequences.
Includes(s, sub) ==
  \E i \in 1..(Len(s) - Len(sub) + 1) : SubSeq(s, i, i + Len(sub) - 1) = sub

\* The index of the first occurrence of sub in s (0 when there is none).
IndexOf(s, sub) ==
  IF Includes(s, sub)
    THEN CHOOSE i \in 1..(Len(s) - Len(sub) + 1) :
           /\ SubSeq(s, i, i + Len(sub) - 1) = sub
           /\ \A j \in 1..(i - 1) : SubSeq(s, j, j + Len(sub) - 1) # sub
    ELSE 0

\* String.prototype.replace(pattern, replacement) with a string pattern: the
\* first occurrence only.  The replacement used by the proxy holds no "$", so
\* no substitution pattern is expanded.
Replace(s, pattern, replacement) ==
  LET i == IndexOf(s, pattern)
  IN  IF i = 0 THEN s
      ELSE SubSeq(s, 1, i - 1) \o replacement
             \o SubSeq(s, i + Len(pattern), Len(s))

\* Buffer.prototype.toString(): UTF-8 decoding of one buffer on its own.  A
\* byte that starts no complete sequence decodes to U+FFFD.  (Lead bytes of
\* three- and four-byte sequences do not occur in Chunks.)
RECURSIVE BufferToString(_)
BufferToString(b) ==
  IF b = <<>> THEN <<>>
  ELSE IF b[1] < 128 THEN <<b[1]>> \o BufferToString(Tail(b))
  ELSE IF /\ b[1] \in 194..223
          /\ Len(b) >= 2
          /\ b[2] \in 128..191
    THEN <<(b[1] - 192) * 64 + (b[2] - 128)>> \o BufferToString(Tail(Tail(b)))
  ELSE <<65533>> \o BufferToString(Tail(b))

\* The UTF-8 encoding of a string, as res.end(string) writes it.
RECURSIVE Utf8Bytes(_)
Utf8Bytes(s) ==
  IF s = <<>> THEN <<>>
  ELSE LET c == s[1]
       IN  (IF c < 128 THEN <<c>>
            ELSE IF c < 2048 THEN <<192 + (c \div 64), 128 + (c % 64)>>
            ELSE <<224 + (c \div 4096), 128 + ((c \div 64) % 64), 128 + (c % 64)>>)
           \o Utf8Bytes(Tail(s))

\* Buffer.byteLength(string): the length of the UTF-8 encoding.
RECURSIVE BufferByteLength(_)
BufferByteLength(s) ==
  IF s = <<>> THEN 0
  ELSE (IF s[1] < 128 THEN 1 ELSE IF s[1] < 2048 THEN 2 ELSE 3)
       + BufferByteLength(Tail(s))

\* Number.prototype.toString() of a natural number.
Digit(d) == SubSeq("0123456789", d + 1, d + 1)

RECURSIVE NumberToString(_)
NumberToString(n) ==
  IF n < 10 THEN Digit(n) ELSE NumberToString(n \div 10) \o Digit(n % 10)

\* delete h[n]
Delete(h, n) == [k \in DOMAIN h \ {n} |-> h[k]]

\* h[n] = v
Assign(h, n, v) == [k \in DOMAIN h \cup {n} |-> IF k = n THEN v ELSE h[k]]

NoHeaders == [k \in {} |-> ""]

\* The concatenation of a sequence of chunks.
RECURSIVE Flat(_)
Flat(cs) == IF cs = <<>> THEN <<>> ELSE Head(cs) \o Flat(Tail(cs))

----------------------------------------------------------------------------
(* The request handler, lines 82-134                                       *)

\* KEYBOARD_SCRIPT (lines 11-75), abbreviated to its first and last lines,
\* "\n<script>" and "</script>\n".  The full text is ASCII and holds neither
\* "$" nor "</head>", as does the abbreviation.
KEYBOARD_SCRIPT ==
  <<10, 60, 115, 99, 114, 105, 112, 116, 62,
    60, 47, 115, 99, 114, 105, 112, 116, 62, 10>>

\* ForwardHeaders without the copy of line 85: the edits land in req.headers.
ForwardHeaders_InPlace(h) ==
  [ headers |-> Assign(Delete(h, "accept-encoding"), "host",
                       "localhost:" \o NumberToString(targetPort)),
    reqHeaders |-> Assign(Delete(h, "accept-encoding"), "host",
                          "localhost:" \o NumberToString(targetPort)) ]

\* Lines 84-88: the header object given to http.request, and req.headers
\* afterwards (the spread copies it, so the handler leaves it alone).
ForwardHeaders(h) ==
  [ headers |-> Assign(Delete(h, "accept-encoding"), "host",
                       "localhost:" \o NumberToString(targetPort)),
    reqHeaders |-> h ]

\* RequestOptions connecting to the host the client named.
RequestOptions_HostHeader(r) ==
  [ hostname |-> IF "host" \in DOMAIN r.headers THEN r.headers["host"]
                 ELSE "localhost",
    port |-> targetPort,
    path |-> r.url,
    method |-> r.method,
    headers |-> ForwardHeaders(r.headers).headers ]

\* Lines 91-97: the options of the upstream request.
RequestOptions(r) ==
  [ hostname |-> "localhost",
    port |-> targetPort,
    path |-> r.url,
    method |-> r.method,
    headers |-> ForwardHeaders(r.headers).headers ]

\* Line 99: proxyRes.headers["content-type"] || ""
ct(h) == IF "content-type" \in DOMAIN h THEN h["content-type"] ELSE ""

\* IsHtml comparing the whole content type instead of searching it.
IsHtml_Exact(h) == ct(h) = "text/html"

\* Line 101
IsHtml(h) == Includes(ct(h), "text/html")

\* proxyRes.statusCode || 200
StatusOr200(code) == IF code = 0 THEN 200 ELSE code

\* Lines 108-110
Inject(b) ==
  IF Includes(b, BufferToString(HeadTag))
    THEN Replace(b, BufferToString(HeadTag),
                 KEYBOARD_SCRIPT \o BufferToString(HeadTag))
    ELSE b \o KEYBOARD_SCRIPT

\* OutHeaders measuring the body in characters (body.length).
OutHeaders_CharLength(h, b) ==
  Delete(Delete(Delete(
    Assign(h, "content-length", NumberToString(Len(b))),
    "content-encoding"),
    "content-security-policy"),
    "content-security-policy-report-only")

\* OutHeaders without line 117.
OutHeaders_KeepsReportOnly(h, b) ==
  Delete(Delete(
    Assign(h, "content-length", NumberToString(BufferByteLength(b))),
    "content-encoding"),
    "content-security-policy")

\* Lines 112-117, for the mutated body b
OutHeaders(h, b) ==
  Delete(Delete(Delete(
    Assign(h, "content-length", NumberToString(BufferByteLength(b))),
    "content-encoding"),
    "content-security-policy"),
    "content-security-policy-report-only")

\* StreamHead stripping the policy headers as the rewrite path does.
StreamHead_PolicyStripped(r) ==
  [ statusCode |-> StatusOr200(r.statusCode),
    headers |-> Delete(Delete(r.headers, "content-security-policy"),
                       "content-security-policy-report-only") ]

\* Line 124: the head written on the streaming path
StreamHead(r) ==
  [statusCode |-> StatusOr200(r.statusCode), headers |-> r.headers]

\* RewriteHead answering 200 whatever the upstream's status.
RewriteHead_Always200(r, b) ==
  [statusCode |-> 200, headers |-> OutHeaders(r.headers, b)]

\* Line 119: the head written on the rewrite path, for the mutated body b
RewriteHead(r, b) ==
  [statusCode |-> StatusOr200(r.statusCode), headers |-> OutHeaders(r.headers, b)]

\* Line 131: res.writeHead(502)
ErrorHead == [statusCode |-> 502, headers |-> NoHeaders]

----------------------------------------------------------------------------
(* The upgrade tunnel (lines 137-152): domains and pure parts              *)

\* The connections that may ask for an upgrade.
TunnelIds == {"t1", "t2"}

\* The number of chunks each end of a tunnel sends after the handshake.
MaxData == 2

\* The chunks the ends of a tunnel send: a text frame byte, and a byte that
\* is not UTF-8 on its own.
TunnelChunks == { <<129>>, <<169>> }

\* The bytes that follow the request head in the packet that carried it.
Heads == { <<>>, <<129, 0>> }

\* The upgrade requests as the client sent them: request line and the header
\* lines in order, each a <<name, value>> pair in the case it was sent in.
UpgradeRequests ==
  { [method |-> "GET", url |-> "/ws", httpVersion |-> "1.1",
     rawHeaders |-> << <<"host", "localhost:3000">>,
                       <<"upgrade", "websocket">>,
                       <<"connection", "Upgrade">> >>],
    [method |-> "GET", url |-> "/ws", httpVersion |-> "1.1",
     rawHeaders |-> << <<"Host", "localhost:3000">>,
                       <<"Upgrade", "websocket">>,
                       <<"Connection", "Upgrade">> >>],
    [method |-> "GET", url |-> "/live?v=2", httpVersion |-> "1.0",
     rawHeaders |-> << <<"host", "localhost:3000">>,
                       <<"upgrade", "websocket">>,
                       <<"sec-websocket-protocol", "chat">>,
                       <<"sec-websocket-protocol", "log">>,
                       <<"set-cookie", "a=1">>,
                       <<"set-cookie", "b=2">> >>] }

CRLF == "\r\n"

UpperCase == "ABCDEFGHIJKLMNOPQRSTUVWXYZ"

LowerCase == "abcdefghijklmnopqrstuvwxyz"

\* One character of String.prototype.toLowerCase (ASCII letters).
LowerChar(c) ==
  IF \E i \in 1..Len(UpperCase) : SubSeq(UpperCase, i, i) = c
    THEN LET i == CHOOSE i \in 1..Len(UpperCase) : SubSeq(UpperCase, i, i) = c
         IN  SubSeq(LowerCase, i, i)
    ELSE c

RECURSIVE ToLowerCase(_)
ToLowerCase(s) ==
  IF s = "" THEN ""
  ELSE LowerChar(SubSeq(s, 1, 1)) \o ToLowerCase(SubSeq(s, 2, Len(s)))

\* Array.prototype.join
RECURSIVE Join(_, _)
Join(parts, sep) ==
  IF parts = <<>> THEN ""
  ELSE IF Len(parts) = 1 THEN parts[1]
  ELSE parts[1] \o sep \o Join(Tail(parts), sep)

\* The headers of which Node keeps the first line and drops the repeats.
DiscardDuplicates ==
  { "age", "authorization", "content-length", "content-type", "etag",
    "expires", "from", "host", "if-modified-since", "if-unmodified-since",
    "last-modified", "location", "max-forwards", "proxy-authorization",
    "referer", "retry-after", "server", "user-agent" }

\* The place of key k in the ordered header object h, 0 when it is absent.
KeyIndex(h, k) ==
  IF \E i \in 1..Len(h) : h[i][1] = k
    THEN CHOOSE i \in 1..Len(h) : h[i][1] = k
    ELSE 0

\* One header line added to req.headers: the name is lower-cased; a repeated
\* name is merged into the entry it already has (set-cookie as an array,
\* cookie joined with "; ", the others with ", ") or dropped.
AddHeaderLine(h, name, value) ==
  LET k == ToLowerCase(name)
      i == KeyIndex(h, k)
  IN  IF i = 0
        THEN Append(h, <<k, [isArray |-> (k = "set-cookie"), parts |-> <<value>>]>>)
      ELSE IF k = "set-cookie"
        THEN [h EXCEPT ![i][2].parts = Append(@, value)]
      ELSE IF k \in DiscardDuplicates
        THEN h
      ELSE [h EXCEPT ![i][2].parts =
              << @[1] \o (IF k = "cookie" THEN "; " ELSE ", ") \o value >>]

\* req.headers of an upgrade request, as the ordered entries that
\* Object.entries gives (line 140): keys in the order of first appearance.
RECURSIVE ParseHeaders(_, _)
ParseHeaders(raw, h) ==
  IF raw = <<>> THEN h
  ELSE ParseHeaders(Tail(raw), AddHeaderLine(h, raw[1][1], raw[1][2]))

\* Line 139
ReqLine(r) == r.method \o " " \o r.url \o " HTTP/" \o r.httpVersion \o CRLF

\* Line 142: `${k}: ${Array.isArray(v) ? v.join(", ") : v}`
HeaderLine(e) ==
  e[1] \o ": " \o (IF e[2].isArray THEN Join(e[2].parts, ", ") ELSE e[2].parts[1])

\* Lines 140-143
Hdrs(r) ==
  LET entries == ParseHeaders(r.rawHeaders, <<>>)
  IN  Join([i \in 1..Len(entries) |-> HeaderLine(entries[i])], CRLF)

\* Line 144: the text of the first write on the upstream socket.
Replay(r) == ReqLine(r) \o Hdrs(r) \o CRLF \o CRLF

\* Replay, tabulated once over the requests of the model.
ReplayOf == [r \in UpgradeRequests |-> Replay(r)]

\* A write of a string, and a write of a Buffer, on a socket.
TextWrite(s) == [isText |-> TRUE, text |-> s, bytes |-> <<>>]

BufferWrite(b) == [isText |-> FALSE, text |-> "", bytes |-> b]

\* What a pipe writes on its destination for a chunk read from its source
\* (lines 147-148): the chunk itself.
PipeChunk_Decoded(chunk) == Utf8Bytes(BufferToString(chunk))

PipeChunk(chunk) == chunk

PipeWrites(chunks) == [i \in 1..Len(chunks) |-> BufferWrite(PipeChunk(chunks[i]))]

\* Lines 144-148 in another order: the pipe is set up before the replay.
ConnectWrites_PipeFirst(r, head, buffered) ==
  PipeWrites(buffered)
    \o <<TextWrite(ReplayOf[r])>>
    \o (IF Len(head) > 0 THEN <<BufferWrite(head)>> ELSE <<>>)

\* Lines 144-148: the writes of the connect callback on the upstream socket,
\* and then what the pipe of line 147 drains from the paused client socket.
ConnectWrites(r, head, buffered) ==
  <<TextWrite(ReplayOf[r])>>
    \o (IF Len(head) > 0 THEN <<BufferWrite(head)>> ELSE <<>>)
    \o PipeWrites(buffered)

\* A connection on which no upgrade was asked for yet.
NoTunnel ==
  [ req          |-> <<>>,     \* the upgrade request: <<>> or <<request>>
    head         |-> <<>>,     \* the `head` Buffer of the 'upgrade' event
    connects     |-> <<>>,     \* the net.connect calls: [port, host]
    clientSocket |-> "none",   \* "none", "open", "closed"
    serverSocket |-> "none",   \* "none", "connecting", "open", "closed"
    connected    |-> FALSE,    \* the connect callback ran
    clientError  |-> FALSE,    \* clientSocket emitted 'error'
    serverError  |-> FALSE,    \* serverSocket emitted 'error'
    clientEof    |-> FALSE,    \* the client ended its stream (FIN received)
    clientEnded  |-> FALSE,    \* clientSocket emitted 'end'
    serverEnded  |-> FALSE,    \* serverSocket emitted 'end'
    clientFin    |-> FALSE,    \* clientSocket.end() was called
    serverFin    |-> FALSE,    \* serverSocket.end() was called
    clientSent   |-> <<>>,     \* chunks the client sent after the handshake
    clientBuf    |-> <<>>,     \* chunks waiting in the paused clientSocket
    serverWrites |-> <<>>,     \* the writes on serverSocket, in order
    serverSent   |-> <<>>,     \* chunks the upstream sent
    clientWrites |-> <<>> ]    \* the writes on clientSocket, in order

----------------------------------------------------------------------------
(* The listener (lines 77-81 and 154-172): domains and pure parts          *)

\* The proxyPort argument of a call: omitted, 0, or a port of the caller.
PreferredArgs == { <<>>, <<0>>, <<3001>> }

\* The ports the system may choose for a bind on port 0.
EphemeralPorts == {49152, 49153}

\* The number of 'error' events of a server that listens.
MaxServerErrors == 1

\* The codes of the errors a bind may fail with.
ErrorCodes == {"EADDRINUSE", "EACCES"}

\* Line 79 with another default.
DefaultPort_Fixed(arg) == IF arg = <<>> THEN 3001 ELSE arg[1]

\* Line 79: proxyPort: number = 0
DefaultPort(arg) == IF arg = <<>> THEN 0 ELSE arg[1]

\* Line 163 without the test of proxyPort.
ShouldFallback_AnyPort(code, port) == code = "EADDRINUSE"

\* Line 163 without the test of the code.
ShouldFallback_AnyCode(code, port) == port # 0

\* Line 163: err.code === "EADDRINUSE" && proxyPort !== 0
ShouldFallback(code, port) == code = "EADDRINUSE" /\ port # 0

\* Line 158 reporting the port that was asked for.
ResolvedValue_Asked(address, port) == [port |-> port]

\* Line 158: { server, port: (server.address() as net.AddressInfo).port }
ResolvedValue(address, port) == [port |-> address]

\* The port a bind on `port` gets: the port itself, or one the system chooses.
BindablePorts(port) == IF port = 0 THEN EphemeralPorts ELSE {port}

----------------------------------------------------------------------------
(* Initial states                                                          *)

ExchangeInit ==
  /\ wireReq = <<>>
  /\ req = <<>>
  /\ proxyReq = <<>>
  /\ upstream = "none"
  /\ proxyRes = <<>>
  /\ upChunks = <<>>
  /\ path = "none"
  /\ body = <<>>
  /\ piped = FALSE
  /\ endPending = FALSE
  /\ resHead = <<>>
  /\ resBody = <<>>
  /\ resEnded = FALSE
  /\ clientOpen = TRUE
  /\ rewrites = 0
  /\ uncaught = FALSE

\* No connection has asked for an upgrade.
TunnelsInit == tunnels = [t \in TunnelIds |-> NoTunnel]

\* Before startKeyboardProxy is called.
ListenerInit ==
  /\ call = <<>>
  /\ proxyPort = 0
  /\ listens = <<>>
  /\ server = "new"
  /\ boundPort = 0
  /\ errorListener = "fallback"
  /\ promise = "pending"
  /\ settleCalls = <<>>
  /\ bindErrors = <<>>
  /\ result = <<>>

\* startKeyboardProxy was called without a proxyPort and resolved: the
\* server listens on a port the system chose.
Serving ==
  /\ call = << <<>> >>
  /\ proxyPort = 0
  /\ listens = <<0>>
  /\ server = "listening"
  /\ boundPort = 49152
  /\ errorListener = "reject"
  /\ promise = "resolved"
  /\ settleCalls = <<"resolve">>
  /\ bindErrors = <<>>
  /\ result = <<[port |-> 49152]>>

\* A ServerManager after construction: start was not called, both fields
\* are undefined (lines 8-9).
ManagerInit ==
  /\ started = "new"
  /\ resolved = FALSE
  /\ child = "none"
  /\ exitCode = "none"
  /\ timer = "none"
  /\ serve = "none"
  /\ serveUrl = ""
  /\ serverProcess = "undefined"
  /\ proxyServer = 0
  /\ providerCalls = <<>>
  /\ disposes = 0
  /\ earlier = <<>>

\* A listening proxy with no connection yet.
Init == ExchangeInit /\ TunnelsInit /\ Serving /\ ManagerInit

\* The proxy before it is started.
ProxyInit == ExchangeInit /\ TunnelsInit /\ ListenerInit /\ ManagerInit

\* Lines 82-97 and 133: the 'request' callback.  It copies and edits the
\* headers, issues the upstream request and pipes the request body into it.
OnRequest ==
  \E r \in ClientRequests :
    /\ wireReq = <<>>
    /\ wireReq' = <<r>>
    /\ req' = <<[r EXCEPT !.headers = ForwardHeaders(r.headers).reqHeaders]>>
    /\ proxyReq' = Append(proxyReq, RequestOptions(r))
    /\ upstream' = "connecting"
    /\ UNCHANGED <<proxyRes, upChunks, path, body, piped, endPending, resHead,
                   resBody, resEnded, clientOpen, rewrites, uncaught>>
    /\ UNCHANGED <<tunnels, listenVars, managerVars>>

\* Lines 98-127: the 'response' callback of the upstream request.
OnResponse ==
  \E r \in UpstreamHeads :
    /\ upstream = "connecting"
    /\ upstream' = "responding"
    /\ proxyRes' = <<r>>
    /\ IF IsHtml(r.headers)
         THEN /\ path' = "buffer"
              /\ body' = <<>>
              /\ UNCHANGED <<resHead, piped>>
         ELSE /\ path' = "stream"
              /\ resHead' = Append(resHead, StreamHead(r))
              \* a closed res takes no write: the pipe stalls at once
              /\ piped' = clientOpen
              /\ UNCHANGED body
    /\ UNCHANGED <<wireReq, req, proxyReq, upChunks, endPending, resBody,
                   resEnded, clientOpen, rewrites, uncaught>>
    /\ UNCHANGED <<tunnels, listenVars, managerVars>>

\* Lines 104-106 and 125: a 'data' event of proxyRes.  On the rewrite path the
\* chunk is decoded on its own and appended to body; on the streaming path
\* the pipe writes it to res.  A stalled pipe leaves it in proxyRes.
OnData ==
  \E chunk \in Chunks :
    /\ upstream = "responding"
    /\ Len(upChunks) < MaxChunks
    /\ upChunks' = Append(upChunks, chunk)
    /\ body' = IF path = "buffer" THEN body \o BufferToString(chunk) ELSE body
    /\ resBody' = IF path = "stream" /\ piped THEN Append(resBody, chunk)
                  ELSE resBody
    /\ UNCHANGED <<wireReq, req, proxyReq, upstream, proxyRes, path, piped,
                   endPending, resHead, resEnded, clientOpen, rewrites,
                   uncaught>>
    /\ UNCHANGED <<tunnels, listenVars, managerVars>>

\* The upstream finishes its response.  A flowing proxyRes queues its 'end'
\* callback, which runs before any other event; a stalled pipe never ends.
UpstreamComplete ==
  /\ upstream = "responding"
  /\ upstream' = "complete"
  /\ endPending' = (path = "buffer" \/ piped)
  /\ UNCHANGED <<wireReq, req, proxyReq, proxyRes, upChunks, path, body, piped,
                 resHead, resBody, resEnded, clientOpen, rewrites, uncaught>>
  /\ UNCHANGED <<tunnels, listenVars, managerVars>>

\* Lines 107-121 (rewrite path) and 125 (the pipe's res.end()): the 'end'
\* callback of proxyRes.
OnEnd ==
  /\ endPending
  /\ endPending' = FALSE
  /\ IF path = "buffer"
       THEN /\ body' = Inject(body)
            /\ rewrites' = rewrites + 1
            /\ IF resHead = <<>>
                 THEN /\ resHead' = <<RewriteHead(proxyRes[1], Inject(body))>>
                      /\ resBody' = Append(resBody, Utf8Bytes(Inject(body)))
                      /\ resEnded' = TRUE
                      /\ UNCHANGED uncaught
                 ELSE \* writeHead after the head was sent throws
                      /\ uncaught' = TRUE
                      /\ UNCHANGED <<resHead, resBody, resEnded>>
       ELSE /\ resEnded' = TRUE
            /\ UNCHANGED <<body, rewrites, resHead, resBody, uncaught>>
  /\ UNCHANGED <<wireReq, req, proxyReq, upstream, proxyRes, upChunks, path,
                 piped, clientOpen>>
  /\ UNCHANGED <<tunnels, listenVars, managerVars>>

\* OnError without the .end() of line 131: the 502 head is written and the
\* response is left open.
OnError_NoEnd ==
  /\ upstream \in {"connecting", "responding"}
  /\ upstream' = "errored"
  /\ piped' = FALSE
  /\ IF resHead = <<>>
       THEN /\ resHead' = <<ErrorHead>>
            /\ UNCHANGED uncaught
       ELSE /\ uncaught' = TRUE
            /\ UNCHANGED resHead
  /\ UNCHANGED <<wireReq, req, proxyReq, proxyRes, upChunks, path, body,
                 endPending, resBody, resEnded, clientOpen, rewrites>>
  /\ UNCHANGED <<tunnels, listenVars, managerVars>>

\* OnError with a writeHead that accepts a second head.
OnError_SecondHead ==
  /\ upstream \in {"connecting", "responding"}
  /\ upstream' = "errored"
  /\ piped' = FALSE
  /\ resHead' = Append(resHead, ErrorHead)
  /\ resEnded' = TRUE
  /\ UNCHANGED <<wireReq, req, proxyReq, proxyRes, upChunks, path, body,
                 endPending, resBody, clientOpen, rewrites, uncaught>>
  /\ UNCHANGED <<tunnels, listenVars, managerVars>>

\* Lines 130-132: the 'error' callback of the upstream request (connection
\* refused, reset, timed out, or closed before any response head).
OnError ==
  /\ upstream \in {"connecting", "responding"}
  /\ upstream' = "errored"
  /\ piped' = FALSE
  /\ IF resHead = <<>>
       THEN /\ resHead' = <<ErrorHead>>
            /\ resEnded' = TRUE
            /\ UNCHANGED uncaught
       ELSE \* writeHead after the head was sent throws
            /\ uncaught' = TRUE
            /\ UNCHANGED <<resHead, resEnded>>
  /\ UNCHANGED <<wireReq, req, proxyReq, proxyRes, upChunks, path, body,
                 endPending, resBody, clientOpen, rewrites>>
  /\ UNCHANGED <<tunnels, listenVars, managerVars>>

\* The upstream closes its connection, without an error, in the middle of
\* the response body.  proxyRes is aborted: no 'end', no 'error' on proxyReq,
\* and no callback of the source runs.
UpstreamAbort ==
  /\ upstream = "responding"
  /\ upstream' = "closed"
  /\ piped' = FALSE
  /\ UNCHANGED <<wireReq, req, proxyReq, proxyRes, upChunks, path, body,
                 endPending, resHead, resBody, resEnded, clientOpen, rewrites,
                 uncaught>>
  /\ UNCHANGED <<tunnels, listenVars, managerVars>>

\* The client socket closes before the response is finished.  The source
\* registers no callback for it; the pipe of line 125 unpipes and pauses
\* proxyRes, and the upstream request is left as it is.
ClientClose ==
  /\ wireReq # <<>>
  /\ clientOpen
  /\ ~resEnded
  /\ ~endPending
  /\ clientOpen' = FALSE
  /\ piped' = FALSE
  /\ UNCHANGED <<wireReq, req, proxyReq, upstream, proxyRes, upChunks, path,
                 body, endPending, resHead, resBody, resEnded, rewrites,
                 uncaught>>
  /\ UNCHANGED <<tunnels, listenVars, managerVars>>

Next ==
  \/ OnRequest
  \/ OnResponse
  \/ OnData
  \/ UpstreamComplete
  \/ OnEnd
  \/ OnError
  \/ UpstreamAbort
  \/ ClientClose

Spec == Init /\ [][Next]_vars

\* The event loop runs a queued callback: the 'end' callback of a finished
\* proxyRes is not postponed for ever.  Events of the client and of the
\* upstream are theirs to produce, and carry no fairness.
FairSpec == Spec /\ WF_vars(OnEnd)

----------------------------------------------------------------------------
(* The upgrade tunnel (lines 137-152): events                              *)
(* The client socket comes from the HTTP server, which lets it stay half   *)
(* open; it is handed over paused and buffers what it receives until line  *)
(* 147 pipes it.  The upstream socket of net.connect ends its own writing  *)
(* side and closes when the upstream ends the stream.                      *)

\* Lines 137-138 and 150-151: the 'upgrade' callback.  It starts the upstream
\* connection and registers both 'error' callbacks before it returns.
OnUpgrade(t) ==
  \E r \in UpgradeRequests, h \in Heads :
    /\ tunnels[t].clientSocket = "none"
    /\ tunnels' = [tunnels EXCEPT ![t] =
         [NoTunnel EXCEPT !.req = <<r>>,
                          !.head = h,
                          !.connects = <<[port |-> targetPort, host |-> "localhost"]>>,
                          !.clientSocket = "open",
                          !.serverSocket = "connecting"]]
    /\ UNCHANGED <<exchangeVars, listenVars, managerVars>>

\* Lines 138-149: the connect callback.  The pipe of line 147 drains the
\* buffered client chunks after the writes of lines 144-145; an end of
\* stream that waited behind them then ends the upstream socket.
OnConnect(t) ==
  LET T == tunnels[t]
      drained == T.clientEof /\ ~T.clientEnded
  IN  /\ T.serverSocket = "connecting"
      /\ tunnels' = [tunnels EXCEPT ![t] =
           [T EXCEPT !.serverSocket = "open",
                     !.connected = TRUE,
                     !.serverWrites = @ \o ConnectWrites(T.req[1], T.head, T.clientBuf),
                     !.clientBuf = <<>>,
                     !.clientEnded = @ \/ drained,
                     !.serverFin = drained]]
      /\ UNCHANGED <<exchangeVars, listenVars, managerVars>>

\* The client sends a chunk after its upgrade request.  The pipe of line 147
\* writes it on the upstream socket; a client socket that is not piped
\* (upstream still connecting, or closed) keeps it.
ClientData(t) ==
  \E chunk \in TunnelChunks :
    LET T == tunnels[t]
    IN  /\ T.clientSocket = "open"
        /\ ~T.clientEof
        /\ Len(T.clientSent) < MaxData
        /\ tunnels' = [tunnels EXCEPT ![t] =
             IF T.serverSocket = "open"
               THEN [T EXCEPT !.clientSent = Append(@, chunk),
                              !.serverWrites = Append(@, BufferWrite(PipeChunk(chunk)))]
               ELSE [T EXCEPT !.clientSent = Append(@, chunk),
                              !.clientBuf = Append(@, chunk)]]
        /\ UNCHANGED <<exchangeVars, listenVars, managerVars>>

\* The upstream sends a chunk; the pipe of line 148 writes it on the client
\* socket.
ServerData(t) ==
  \E chunk \in TunnelChunks :
    LET T == tunnels[t]
    IN  /\ T.serverSocket = "open"
        /\ Len(T.serverSent) < MaxData
        /\ tunnels' = [tunnels EXCEPT ![t] =
             [T EXCEPT !.serverSent = Append(@, chunk),
                       !.clientWrites =
                          IF T.clientSocket = "open" /\ ~T.clientFin
                            THEN Append(@, BufferWrite(PipeChunk(chunk)))
                            ELSE @]]
        /\ UNCHANGED <<exchangeVars, listenVars, managerVars>>

\* The client ends its stream without an error.  clientSocket emits 'end'
\* once nothing is buffered in it; the pipe of line 147, if set up, then
\* calls serverSocket.end().  A client socket whose two directions are both
\* finished closes.
ClientEnd(t) ==
  LET T == tunnels[t]
      ended == T.clientBuf = <<>>
  IN  /\ T.clientSocket = "open"
      /\ ~T.clientEof
      /\ tunnels' = [tunnels EXCEPT ![t] =
           [T EXCEPT !.clientEof = TRUE,
                     !.clientEnded = ended,
                     !.serverFin = @ \/ (ended /\ T.serverSocket = "open"),
                     !.clientSocket = IF ended /\ T.clientFin THEN "closed" ELSE @]]
      /\ UNCHANGED <<exchangeVars, listenVars, managerVars>>

\* The upstream ends its stream without an error.  serverSocket emits 'end':
\* the pipe of line 148 calls clientSocket.end(), and serverSocket, which
\* does not stay half open, finishes and closes.  The client socket closes
\* only if its reading side has ended too.
ServerEnd(t) ==
  LET T == tunnels[t]
  IN  /\ T.serverSocket = "open"
      /\ tunnels' = [tunnels EXCEPT ![t] =
           [T EXCEPT !.serverEnded = TRUE,
                     !.serverSocket = "closed",
                     !.clientFin = TRUE,
                     !.clientSocket = IF T.clientEnded THEN "closed" ELSE @]]
      /\ UNCHANGED <<exchangeVars, listenVars, managerVars>>

\* Line 150 without its callback: the upstream socket fails alone.
ServerSocketError_Unhandled(t) ==
  LET T == tunnels[t]
  IN  /\ T.serverSocket \in {"connecting", "open"}
      /\ tunnels' = [tunnels EXCEPT ![t] =
           [T EXCEPT !.serverError = TRUE,
                     !.serverSocket = "closed"]]
      /\ UNCHANGED <<exchangeVars, listenVars, managerVars>>

\* Line 150 answering like the HTTP handler: a 502 head written on the
\* client socket before it is destroyed.
ServerSocketError_BadGateway(t) ==
  LET T == tunnels[t]
  IN  /\ T.serverSocket \in {"connecting", "open"}
      /\ tunnels' = [tunnels EXCEPT ![t] =
           [T EXCEPT !.serverError = TRUE,
                     !.serverSocket = "closed",
                     !.clientWrites = Append(@, TextWrite("HTTP/1.1 502 Bad Gateway" \o CRLF \o CRLF)),
                     !.clientSocket = "closed"]]
      /\ UNCHANGED <<exchangeVars, listenVars, managerVars>>

\* Line 150: serverSocket emits 'error' (connection refused while it
\* connects, a reset once it is open) and closes; the callback destroys the
\* client socket.
ServerSocketError(t) ==
  LET T == tunnels[t]
  IN  /\ T.serverSocket \in {"connecting", "open"}
      /\ tunnels' = [tunnels EXCEPT ![t] =
           [T EXCEPT !.serverError = TRUE,
                     !.serverSocket = "closed",
                     !.clientSocket = "closed"]]
      /\ UNCHANGED <<exchangeVars, listenVars, managerVars>>

\* Line 151 sparing an upstream socket that is still connecting.
ClientSocketError_OpenOnly(t) ==
  LET T == tunnels[t]
  IN  /\ T.clientSocket = "open"
      /\ tunnels' = [tunnels EXCEPT ![t] =
           [T EXCEPT !.clientError = TRUE,
                     !.clientSocket = "closed",
                     !.serverSocket = IF @ = "open" THEN "closed" ELSE @]]
      /\ UNCHANGED <<exchangeVars, listenVars, managerVars>>

\* Line 151: clientSocket emits 'error' and closes; the callback destroys the
\* upstream socket, connected or still connecting.
ClientSocketError(t) ==
  LET T == tunnels[t]
  IN  /\ T.clientSocket = "open"
      /\ tunnels' = [tunnels EXCEPT ![t] =
           [T EXCEPT !.clientError = TRUE,
                     !.clientSocket = "closed",
                     !.serverSocket = "closed"]]
      /\ UNCHANGED <<exchangeVars, listenVars, managerVars>>

\* One event of the tunnel on connection t.
TunnelStep(t) ==
  \/ OnUpgrade(t)
  \/ OnConnect(t)
  \/ ClientData(t)
  \/ ServerData(t)
  \/ ClientEnd(t)
  \/ ServerEnd(t)
  \/ ServerSocketError(t)
  \/ ClientSocketError(t)

TunnelNext == TunnelStep("t1")

\* One upgrade tunnel on a listening proxy.
TunnelSpec == Init /\ [][TunnelNext]_vars

----------------------------------------------------------------------------
(* Properties                                                              *)

\* The upstream response declares a content type that contains "text/html".
TextHtml ==
  /\ proxyRes # <<>>
  /\ "content-type" \in DOMAIN proxyRes[1].headers
  /\ \E i \in 1..(Len(proxyRes[1].headers["content-type"]) - 8) :
       SubSeq(proxyRes[1].headers["content-type"], i, i + 8) = "text/html"

NonHtml == proxyRes # <<>> /\ ~TextHtml

IsPrefix(s, t) == Len(s) <= Len(t) /\ SubSeq(t, 1, Len(s)) = s

\* The bytes the upstream produced and the bytes written to the client.
UpBytes == Flat(upChunks)
ResBytes == Flat(resBody)

\* The rewrite callback has written its response.
Rewritten == rewrites > 0 /\ resEnded

\* C1: on a non-HTML exchange the head written to the client is the upstream
\* status and header object unchanged, the chunks written are the upstream's
\* chunks in their order, each written in the step that receives it while
\* the pipe flows, and the handler's body buffer stays empty.
C1_NonHtmlStreamedUntouched ==
  NonHtml =>
    /\ resHead = <<proxyRes[1]>>
    /\ IsPrefix(resBody, upChunks)
    /\ (piped => resBody = upChunks)
    /\ body = <<>>

C1_Witness ==
  /\ NonHtml
  /\ resEnded
  /\ Len(resBody) >= 2
  /\ DOMAIN proxyRes[1].headers # {}

\* C2 (as claimed): a rewritten HTML response whose upstream body holds
\* "</head>" is that body with the script inserted before the first "</head>".
C2_ScriptBeforeFirstHeadTag ==
  (Rewritten /\ Includes(UpBytes, HeadTag)) =>
    ResBytes = SubSeq(UpBytes, 1, IndexOf(UpBytes, HeadTag) - 1)
                 \o KEYBOARD_SCRIPT
                 \o SubSeq(UpBytes, IndexOf(UpBytes, HeadTag), Len(UpBytes))

\* C3 (as claimed): a rewritten HTML response whose upstream body holds no
\* "</head>" is that body followed by the script.
C3_ScriptAppended ==
  (Rewritten /\ ~Includes(UpBytes, HeadTag)) =>
    ResBytes = UpBytes \o KEYBOARD_SCRIPT

\* C4: the Content-Length of a rewritten response is the decimal number of
\* bytes of the body written, whatever length the upstream declared.
C4_ContentLengthIsByteLength ==
  Rewritten =>
    /\ "content-length" \in DOMAIN resHead[1].headers
    /\ resHead[1].headers["content-length"] = NumberToString(Len(ResBytes))

C4_Witness ==
  /\ Rewritten
  /\ "content-length" \in DOMAIN proxyRes[1].headers
  /\ resHead[1].headers["content-length"] # proxyRes[1].headers["content-length"]
  /\ Len(ResBytes) # Len(body)

\* C5: no head written for an HTML response holds either policy header.
C5_NoPolicyHeaderOnHtml ==
  TextHtml =>
    \A i \in 1..Len(resHead) :
      DOMAIN resHead[i].headers \cap
        {"content-security-policy", "content-security-policy-report-only"} = {}

C5_Witness ==
  /\ Rewritten
  /\ {"content-security-policy", "content-security-policy-report-only"}
       \subseteq DOMAIN proxyRes[1].headers

\* C6: the script is injected at most once, and only into a response whose
\* content type contains "text/html"; such a response takes the buffering
\* branch and is rewritten when its body ends, and every other response
\* (one without a content type too) takes the streaming branch and leaves
\* the body buffer empty.
C6_RewrittenOnceIffHtml ==
  /\ rewrites <= 1
  /\ rewrites = 1 => TextHtml
  /\ proxyRes # <<>> => (path = "buffer" <=> TextHtml)
  /\ proxyRes # <<>> => (path = "stream" <=> ~TextHtml)
  /\ (TextHtml /\ upstream = "complete" /\ ~endPending) => rewrites = 1
  /\ ~TextHtml => body = <<>>

C6_Witness ==
  /\ rewrites = 1
  /\ proxyRes[1].headers["content-type"] = "text/html; charset=utf-8"
  /\ Len(upChunks) >= 2

\* C7: the upstream request carries the client's headers without
\* accept-encoding and with host set to localhost:<targetPort>, every other
\* header, the method and the path as the client sent them, and req.headers
\* is left as received.
C7_RequestHeaderTransforms ==
  proxyReq # <<>> =>
    /\ DOMAIN proxyReq[1].headers =
         (DOMAIN wireReq[1].headers \ {"accept-encoding"}) \cup {"host"}
    /\ proxyReq[1].headers["host"] = "localhost:4096"
    /\ \A n \in DOMAIN proxyReq[1].headers \ {"host"} :
         proxyReq[1].headers[n] = wireReq[1].headers[n]
    /\ proxyReq[1].method = wireReq[1].method
    /\ proxyReq[1].path = wireReq[1].url
    /\ req = wireReq

C7_Witness ==
  /\ proxyReq # <<>>
  /\ {"accept-encoding", "host", "cookie"} \subseteq DOMAIN wireReq[1].headers
  /\ wireReq[1].method = "POST"

\* C8 (as claimed): whenever the upstream request has errored, the response
\* is a 502 without a body, and one upstream request was made.
C8_ErrorGives502 ==
  upstream = "errored" =>
    /\ resHead = <<[statusCode |-> 502, headers |-> <<>>]>>
    /\ resBody = <<>>
    /\ resEnded
    /\ Len(proxyReq) = 1

\* C8 (amended): the same when the error came before a head was written to
\* the client, that is on every exchange but one that is already streaming.
C8_ErrorBeforeHeadGives502 ==
  (upstream = "errored" /\ path # "stream") => C8_ErrorGives502

C8_Witness ==
  /\ upstream = "errored"
  /\ path = "buffer"
  /\ upChunks # <<>>
  /\ resHead = <<[statusCode |-> 502, headers |-> <<>>]>>

\* C9 (as claimed): once the client socket is closed, the upstream leg of the
\* exchange does not stay open for ever.
C9_ClientCloseEndsUpstream ==
  (~clientOpen /\ upstream \in {"connecting", "responding"})
    ~> (upstream \notin {"connecting", "responding"})

\* C10 (as claimed): at most one head is written, a finished response has
\* one, the streamed chunks are the upstream's in order, and a rewritten body
\* is the upstream's bytes in order with the script inserted at one place.
C10_OneResponseInOrder ==
  /\ Len(resHead) <= 1
  /\ resEnded => Len(resHead) = 1
  /\ path = "stream" => IsPrefix(resBody, upChunks)
  /\ Rewritten =>
       \E i \in 0..Len(UpBytes) :
         ResBytes = SubSeq(UpBytes, 1, i) \o KEYBOARD_SCRIPT
                      \o SubSeq(UpBytes, i + 1, Len(UpBytes))

----------------------------------------------------------------------------
(* The listener (lines 77-81 and 154-172): events                          *)

\* Lines 77-81, 162-172: the call.  The fallback 'error' listener is
\* registered and the first server.listen is made on proxyPort.
StartKeyboardProxy ==
  \E arg \in PreferredArgs :
    /\ call = <<>>
    /\ call' = <<arg>>
    /\ proxyPort' = DefaultPort(arg)
    /\ errorListener' = "fallback"
    /\ listens' = Append(listens, DefaultPort(arg))
    /\ server' = "binding"
    /\ UNCHANGED <<boundPort, promise, settleCalls, bindErrors, result>>
    /\ UNCHANGED <<exchangeVars, tunnels, managerVars>>

\* Lines 155-159: the server emits 'listening'.  Every server.listen call
\* registered its callback once for that event, so the callback runs once
\* per call made; each run replaces the 'error' listeners by reject and
\* calls resolve, which settles the promise the first time.
OnListening ==
  /\ server = "binding"
  /\ \E address \in BindablePorts(listens[Len(listens)]) :
    /\ server' = "listening"
    /\ boundPort' = address
    /\ errorListener' = "reject"
    /\ settleCalls' = settleCalls \o [i \in 1..Len(listens) |-> "resolve"]
    /\ promise' = IF promise = "pending" THEN "resolved" ELSE promise
    /\ result' = IF promise = "pending"
                   THEN <<ResolvedValue(address, listens[Len(listens)])>>
                   ELSE result
    /\ UNCHANGED <<call, proxyPort, listens, bindErrors>>
    /\ UNCHANGED <<exchangeVars, tunnels, managerVars>>

\* Lines 162-170: the server emits 'error' before it listens.
OnBindError ==
  \E code \in ErrorCodes :
    /\ server = "binding"
    /\ bindErrors' = Append(bindErrors, code)
    /\ IF ShouldFallback(code, proxyPort)
         THEN /\ proxyPort' = 0
              /\ listens' = Append(listens, 0)
              /\ UNCHANGED <<server, promise, settleCalls>>
         ELSE /\ server' = "failed"
              /\ promise' = IF promise = "pending" THEN "rejected" ELSE promise
              /\ settleCalls' = Append(settleCalls, "reject")
              /\ UNCHANGED <<proxyPort, listens>>
    /\ UNCHANGED <<call, boundPort, errorListener, result>>
    /\ UNCHANGED <<exchangeVars, tunnels, managerVars>>

\* The number of reject calls made by the listener of line 157.
ServerErrors ==
  Cardinality({ i \in 1..Len(settleCalls) : settleCalls[i] = "reject" })

\* OnServerError with a promise that takes the last call made on it.
OnServerError_Overwrites ==
  /\ server = "listening"
  /\ ServerErrors < MaxServerErrors
  /\ settleCalls' = Append(settleCalls, "reject")
  /\ promise' = "rejected"
  /\ result' = <<>>
  /\ UNCHANGED <<call, proxyPort, listens, server, boundPort, errorListener,
                 bindErrors>>
  /\ UNCHANGED <<exchangeVars, tunnels, managerVars>>

\* Line 157: the server emits 'error' while it listens.  Its only listener
\* is reject, and a call of reject on a settled promise changes nothing.
OnServerError ==
  /\ server = "listening"
  /\ ServerErrors < MaxServerErrors
  /\ settleCalls' = Append(settleCalls, "reject")
  /\ promise' = IF promise = "pending" THEN "rejected" ELSE promise
  /\ UNCHANGED <<call, proxyPort, listens, server, boundPort, errorListener,
                 bindErrors, result>>
  /\ UNCHANGED <<exchangeVars, tunnels, managerVars>>

\* ServerManager.dispose: this.proxyServer.close().  The server stops
\* listening; the connections it accepted are left as they are.
CloseServer ==
  /\ server = "listening"
  /\ server' = "closed"
  /\ UNCHANGED <<call, proxyPort, listens, boundPort, errorListener, promise,
                 settleCalls, bindErrors, result>>
  /\ UNCHANGED <<exchangeVars, tunnels, managerVars>>

\* The exception thrown by a callback (line 131 or 117 after the head was
\* sent) reaches the process as an uncaught exception.  A host that installs
\* a handler for those logs it and goes on, which is no step; without one
\* the process exits, and the listener with it.
ProcessExit ==
  /\ uncaught
  /\ server # "exited"
  /\ server' = "exited"
  /\ UNCHANGED <<call, proxyPort, listens, boundPort, errorListener, promise,
                 settleCalls, bindErrors, result>>
  /\ UNCHANGED <<exchangeVars, tunnels, managerVars>>

----------------------------------------------------------------------------
(* The whole proxy: the listener, one HTTP exchange and two tunnels        *)

\* The server accepts connections.
Accepting == server = "listening"

\* The process runs.
Running == server # "exited"

\* The inputs of the connections when they run next to each other: one
\* request, two response heads and one chunk value for the exchange, and one
\* upgrade request without pre-upgrade bytes for a tunnel.  The tunnels open
\* and fail here; what they relay and how they end is left to TunnelSpec.
InScope ==
  /\ \A i \in 1..Len(wireReq) :
       wireReq[i].method = "GET" /\ DOMAIN wireReq[i].headers = {"cookie", "host"}
  /\ \A i \in 1..Len(proxyRes) :
       /\ proxyRes[i].statusCode = 200
       /\ DOMAIN proxyRes[i].headers = {"content-type", "transfer-encoding"}
  /\ \A i \in 1..Len(upChunks) : upChunks[i] = HeadTag
  /\ \A t \in TunnelIds :
       /\ \A i \in 1..Len(tunnels[t].req) :
            tunnels[t].req[i].rawHeaders[1][1] = "Host"
       /\ tunnels[t].head = <<>>

ProxyNext ==
  \/ StartKeyboardProxy
  \/ OnListening
  \/ OnBindError
  \/ OnServerError
  \/ CloseServer
  \/ ProcessExit
  \/ Accepting /\ OnRequest /\ InScope'
  \/ Running /\ OnResponse /\ InScope'
  \/ Running /\ OnData /\ InScope'
  \/ Running /\ UpstreamComplete
  \/ Running /\ OnEnd
  \/ Running /\ OnError
  \/ Running /\ UpstreamAbort
  \/ Running /\ ClientClose
  \/ \E t \in TunnelIds : Accepting /\ OnUpgrade(t) /\ InScope'
  \/ \E t \in TunnelIds : Running /\ OnConnect(t)
  \/ \E t \in TunnelIds : Running /\ ServerSocketError(t)
  \/ \E t \in TunnelIds : Running /\ ClientSocketError(t)

\* The proxy from the call of startKeyboardProxy on.
ProxySpec == ProxyInit /\ [][ProxyNext]_vars

----------------------------------------------------------------------------
(* The upstream connections: one exchange with every request of the model  *)
(* and one tunnel with every upgrade request                               *)

\* The response inputs of the exchange when it runs next to a tunnel: two
\* heads and one chunk value.
ConnectScope ==
  /\ \A i \in 1..Len(proxyRes) :
       /\ proxyRes[i].statusCode = 200
       /\ DOMAIN proxyRes[i].headers = {"content-type", "transfer-encoding"}
  /\ \A i \in 1..Len(upChunks) : upChunks[i] = HeadTag

ConnectNext ==
  \/ OnRequest
  \/ OnResponse /\ ConnectScope'
  \/ OnData /\ ConnectScope'
  \/ UpstreamComplete
  \/ OnEnd
  \/ OnError
  \/ UpstreamAbort
  \/ ClientClose
  \/ OnUpgrade("t1")
  \/ OnConnect("t1")
  \/ ServerSocketError("t1")
  \/ ClientSocketError("t1")

\* The exchange and a tunnel on a listening proxy, from their first event to
\* the end or the failure of their upstream connections.
ConnectSpec == Init /\ [][ConnectNext]_vars

----------------------------------------------------------------------------
(* Properties of the upgrade tunnel                                        *)

\* The request head as the client sent it: the request line, then every
\* header line as its own name: value line, in the case and the number it
\* was sent in, then a blank line.
SentHead(r) ==
  ReqLine(r)
    \o Join([i \in 1..Len(r.rawHeaders) |->
               r.rawHeaders[i][1] \o ": " \o r.rawHeaders[i][2]], CRLF)
    \o CRLF \o CRLF

\* C11: the first write on the upstream socket of a tunnel is the request
\* head exactly as the client sent it: request line, every received header
\* line with its name's case and its repeats kept, CRLF-joined, blank line.
C11_ReplayIsVerbatim ==
  \A t \in TunnelIds :
    tunnels[t].connected =>
      tunnels[t].serverWrites[1] = TextWrite(SentHead(tunnels[t].req[1]))

\* The writes of lines 144-145 on the upstream socket of tunnel record T.
Handshake(T) ==
  <<TextWrite(ReplayOf[T.req[1]])>>
    \o (IF Len(T.head) > 0 THEN <<BufferWrite(T.head)>> ELSE <<>>)

\* The writes on the upstream socket that follow the handshake writes.
DataWrites(T) == SubSeq(T.serverWrites, Len(Handshake(T)) + 1, Len(T.serverWrites))

\* The chunks cs as Buffer writes, one write per chunk, unchanged.
AsWrites(cs) == [i \in 1..Len(cs) |-> BufferWrite(cs[i])]

\* C12: nothing is written on the upstream socket before it is connected;
\* from then on its writes are the replayed head, then the `head` bytes when
\* there are any, then client chunks in the order the client sent them.
C12_ReplayThenHeadThenData ==
  \A t \in TunnelIds :
    LET T == tunnels[t]
    IN  /\ ~T.connected => T.serverWrites = <<>>
        /\ T.connected =>
             /\ Len(T.serverWrites) >= Len(Handshake(T))
             /\ SubSeq(T.serverWrites, 1, Len(Handshake(T))) = Handshake(T)
             /\ IsPrefix(DataWrites(T), AsWrites(T.clientSent))

\* A tunnel with pre-upgrade bytes and two relayed client chunks.
C12_Witness ==
  \E t \in TunnelIds :
    /\ tunnels[t].connected
    /\ tunnels[t].head # <<>>
    /\ Len(tunnels[t].serverWrites) = 4

\* C13: in an established tunnel the client's chunks are written upstream,
\* and the upstream's chunks on the client socket, unchanged and in order;
\* while both sockets are open none is held back.
C13_TunnelRelaysBytes ==
  \A t \in TunnelIds :
    LET T == tunnels[t]
    IN  T.connected =>
          /\ IsPrefix(DataWrites(T), AsWrites(T.clientSent))
          /\ T.clientWrites = AsWrites(T.serverSent)
          /\ T.serverSocket = "open" /\ T.clientSocket = "open" =>
               DataWrites(T) = AsWrites(T.clientSent)

\* An open tunnel that relayed a byte that is not UTF-8 in each direction.
C13_Witness ==
  \E t \in TunnelIds :
    /\ tunnels[t].serverSocket = "open"
    /\ tunnels[t].clientSocket = "open"
    /\ tunnels[t].clientSent = << <<129>>, <<169>> >>
    /\ tunnels[t].serverSent = << <<169>> >>
    /\ Len(tunnels[t].clientWrites) = 1

\* C14: when the upstream connection of a tunnel fails before it is
\* established, that tunnel's client socket is destroyed with nothing written
\* on it, and the other tunnel, the HTTP exchange and the listener stay as
\* they are.
C14_ConnectFailureDestroysClient ==
  [][ \A t \in TunnelIds :
        tunnels[t].serverSocket = "connecting" /\ tunnels'[t].serverError =>
          /\ tunnels'[t].clientSocket = "closed"
          /\ tunnels'[t].clientWrites = <<>>
          /\ \A u \in TunnelIds \ {t} : tunnels'[u] = tunnels[u]
          /\ UNCHANGED <<exchangeVars, listenVars, managerVars>> ]_vars

\* A tunnel whose upstream connection failed, next to an established tunnel
\* and an exchange that is being answered.
C14_Witness ==
  \E t, u \in TunnelIds :
    /\ tunnels[t].serverError
    /\ ~tunnels[t].connected
    /\ tunnels[t].clientSocket = "closed"
    /\ tunnels[t].clientWrites = <<>>
    /\ tunnels[u].serverSocket = "open"
    /\ upstream = "responding"

\* C15: a tunnel socket that emitted 'error' has its peer destroyed, at any
\* point of the tunnel's life: no state has one socket errored and the other
\* still open or connecting.
C15_ErrorDestroysPeer ==
  \A t \in TunnelIds :
    /\ tunnels[t].clientError => tunnels[t].serverSocket = "closed"
    /\ tunnels[t].serverError => tunnels[t].clientSocket = "closed"

\* The client socket failed while the upstream socket was still connecting.
C15_Witness ==
  \E t \in TunnelIds :
    /\ tunnels[t].clientError
    /\ ~tunnels[t].connected
    /\ tunnels[t].serverSocket = "closed"

\* C16: the two sockets of a tunnel are open together and closed together:
\* after a clean end of stream on either side the other side is closed too,
\* so no tunnel has exactly one of its sockets closed.
C16_BothOpenOrBothClosed ==
  \A t \in TunnelIds :
    (tunnels[t].clientSocket = "closed") <=> (tunnels[t].serverSocket = "closed")

----------------------------------------------------------------------------
(* Properties of the listener                                              *)

\* The port the caller asked for: 0 when none was given.
Preferred == IF call = <<>> \/ call[1] = <<>> THEN 0 ELSE call[1][1]

\* The server is or was listening.
Listened == server \in {"listening", "closed", "exited"}

\* C17: a second server.listen is made exactly when the preferred port is
\* not 0 and the first bind failed with EADDRINUSE; it asks for port 0, and
\* when it succeeds the promise resolves with a listening server.  There is
\* never a third, and never a second when the preferred port was 0.
C17_RetriesOnceOnPortZero ==
  /\ Len(listens) <= 2
  /\ Len(listens) = 2 <=>
       (Preferred # 0 /\ bindErrors # <<>> /\ bindErrors[1] = "EADDRINUSE")
  /\ Len(listens) = 2 => listens[2] = 0
  /\ Len(listens) = 2 /\ Listened => promise = "resolved" /\ result # <<>>
  /\ Preferred = 0 => Len(listens) <= 1

\* The fallback bind succeeded.
C17_Witness ==
  /\ Len(listens) = 2
  /\ server = "listening"
  /\ promise = "resolved"

\* The bind errors so far are not recoverable: one that is not EADDRINUSE,
\* EADDRINUSE with a preferred port of 0, or any error of the retry.
Unrecoverable ==
  /\ bindErrors # <<>>
  /\ \/ bindErrors[1] # "EADDRINUSE"
     \/ Preferred = 0
     \/ Len(bindErrors) >= 2

\* C18: the promise is rejected exactly when an unrecoverable bind error
\* occurred, and is resolved exactly when the server got to listen.
C18_RejectsIffUnrecoverable ==
  /\ promise = "rejected" <=> Unrecoverable
  /\ promise = "resolved" <=> Listened

\* Rejected by an error of the retry on port 0.
C18_Witness ==
  /\ promise = "rejected"
  /\ Len(bindErrors) = 2
  /\ Preferred # 0

\* C19: the first bind asks for the caller's preferred port (0 when none was
\* given); the port of the result is the port the server is bound to: the
\* preferred one when it is not 0 and the bind went through, otherwise one
\* the system chose; and there is no result before the server listens.
C19_ResolvedPortIsBoundPort ==
  /\ listens # <<>> => listens[1] = Preferred
  /\ result # <<>> <=> promise = "resolved"
  /\ result # <<>> =>
       /\ Listened
       /\ result[1].port = boundPort
       /\ IF Preferred # 0 /\ bindErrors = <<>>
            THEN result[1].port = Preferred
            ELSE result[1].port \in EphemeralPorts

\* Resolved with a system-chosen port after the preferred one was in use.
C19_Witness ==
  /\ result # <<>>
  /\ Preferred # 0
  /\ result[1].port \in EphemeralPorts

\* A fault of the exchange in this step: its upstream leg errors or is cut,
\* or its client goes away.
ExchangeFault ==
  \/ upstream' \in {"errored", "closed"} /\ upstream' # upstream
  \/ clientOpen /\ ~clientOpen'

\* A fault of tunnel t in this step: one of its sockets emits 'error'.
TunnelFault(t) ==
  \/ ~tunnels[t].serverError /\ tunnels'[t].serverError
  \/ ~tunnels[t].clientError /\ tunnels'[t].clientError

\* A fault of a connection changes nothing but that connection.
FaultsStayLocal ==
  /\ ExchangeFault => UNCHANGED <<tunnels, listenVars, managerVars>>
  /\ \A t \in TunnelIds :
       TunnelFault(t) =>
         /\ \A u \in TunnelIds \ {t} : tunnels'[u] = tunnels[u]
         /\ UNCHANGED <<exchangeVars, listenVars, managerVars>>

\* C20: a listening server stops listening only when its owner closes it,
\* and no fault of an exchange or of a tunnel changes the listener or any
\* other connection.
C20_ListenerOutlivesFaults ==
  [][ /\ server = "listening" /\ server' # "listening" =>
           server' = "closed" /\ UNCHANGED <<exchangeVars, tunnels, managerVars>>
      /\ FaultsStayLocal ]_vars

----------------------------------------------------------------------------
(* Properties of the upstream connections                                  *)

\* C22: an exchange makes one upstream request from its first event on and
\* never another, and every upstream connection, of the exchange or of a
\* tunnel, goes to localhost and the target port, whatever host header and
\* path the client sent.
C22_OneUpstreamToLocalTarget ==
  /\ Len(proxyReq) = Len(wireReq)
  /\ \A i \in 1..Len(proxyReq) :
       proxyReq[i].hostname = "localhost" /\ proxyReq[i].port = 4096
  /\ \A t \in TunnelIds :
       /\ Len(tunnels[t].connects) = Len(tunnels[t].req)
       /\ \A i \in 1..Len(tunnels[t].connects) :
            tunnels[t].connects[i] = [port |-> 4096, host |-> "localhost"]

\* A request for another path that names a host, whose upstream request
\* failed, next to a tunnel for another path that is connected.
C22_Witness ==
  /\ wireReq # <<>>
  /\ wireReq[1].url = "/app?x=1"
  /\ "host" \in DOMAIN wireReq[1].headers
  /\ upstream = "errored"
  /\ tunnels["t1"].req # <<>>
  /\ tunnels["t1"].req[1].url = "/live?v=2"
  /\ tunnels["t1"].connected

----------------------------------------------------------------------------
(* Further properties of the HTTP exchange                                 *)

\* The headers the rewrite removes or sets.
RewrittenHeaders ==
  { "content-length", "content-encoding", "content-security-policy",
    "content-security-policy-report-only" }

\* C23: the head of a rewritten response has the upstream's status code and
\* the upstream's headers, less content-encoding and the two policy headers,
\* with content-length set, and every other header with the upstream's value.
C23_RewriteKeepsStatusAndOtherHeaders ==
  Rewritten =>
    /\ resHead[1].statusCode = proxyRes[1].statusCode
    /\ DOMAIN resHead[1].headers =
         (DOMAIN proxyRes[1].headers \ RewrittenHeaders) \cup {"content-length"}
    /\ \A n \in DOMAIN proxyRes[1].headers \ RewrittenHeaders :
         resHead[1].headers[n] = proxyRes[1].headers[n]

\* A rewritten 404 whose upstream sent all four headers and a tag.
C23_Witness ==
  /\ Rewritten
  /\ proxyRes[1].statusCode = 404
  /\ RewrittenHeaders \cup {"etag"} \subseteq DOMAIN proxyRes[1].headers
  /\ resHead[1].headers["etag"] = "W/1"

\* C24: the bytes of a rewritten response depend on the bytes of the
\* upstream body only, not on its chunks: they are what the rewrite gives
\* for the body taken as one buffer.
C24_ChunkingIndependent ==
  Rewritten => ResBytes = Utf8Bytes(Inject(BufferToString(UpBytes)))

C26_ExchangeCompletes ==
  (/\ wireReq # <<>>
   /\ upstream \in {"complete", "errored", "closed"}
   /\ ~endPending
   /\ clientOpen)
    => resEnded

\* C27: the head of a rewritten response does not hold both content-length
\* and transfer-encoding.
C27_LengthWithoutChunked ==
  Rewritten =>
    ~({"content-length", "transfer-encoding"} \subseteq DOMAIN resHead[1].headers)

----------------------------------------------------------------------------
(* Further properties of the listener and of the tunnel                    *)

C29_NoConnectAfterClientError ==
  [][ \A t \in TunnelIds :
        /\ tunnels'[t].clientError /\ ~tunnels'[t].connected =>
             /\ tunnels'[t].serverSocket = "closed"
             /\ tunnels'[t].serverWrites = <<>>
        /\ tunnels[t].clientError /\ ~tunnels[t].connected =>
             ~tunnels'[t].connected ]_vars

\* The client sent a chunk and then failed while the upstream was connecting:
\* the chunk was never relayed.
C29_Witness ==
  \E t \in TunnelIds :
    /\ tunnels[t].clientError
    /\ ~tunnels[t].connected
    /\ tunnels[t].clientBuf # <<>>
    /\ tunnels[t].serverWrites = <<>>

----------------------------------------------------------------------------
(* ServerManager (src/server/ServerManager.ts): values                     *)

\* The workspace folder path `cwd` (line 16), as code units: "/w".
cwd == <<47, 119>>

\* Buffer.prototype.toString("base64url"): six bits per character, no
\* padding.
Base64Char(i) ==
  SubSeq("ABCDEFGHIJKLMNOPQRSTUVWXYZabcdefghijklmnopqrstuvwxyz0123456789-_",
         i + 1, i + 1)

RECURSIVE Base64Url(_)
Base64Url(b) ==
  IF b = <<>> THEN ""
  ELSE IF Len(b) = 1
    THEN Base64Char(b[1] \div 4) \o Base64Char((b[1] % 4) * 16)
  ELSE IF Len(b) = 2
    THEN Base64Char(b[1] \div 4)
           \o Base64Char((b[1] % 4) * 16 + b[2] \div 16)
           \o Base64Char((b[2] % 16) * 4)
  ELSE Base64Char(b[1] \div 4)
         \o Base64Char((b[1] % 4) * 16 + b[2] \div 16)
         \o Base64Char((b[2] % 16) * 4 + b[3] \div 64)
         \o Base64Char(b[3] % 64)
         \o Base64Url(SubSeq(b, 4, Len(b)))

\* Lines 34 and 40: the pathname given to the URL.
CwdPathname == "/" \o Base64Url(Utf8Bytes(cwd))

\* Lines 50 and 111: `http://localhost:${port}`, port being the port the
\* proxy is given as its target.
existingUrl == "http://localhost:" \o NumberToString(targetPort)

\* What the child process writes on stdout or stderr, one chunk each.
Outputs ==
  { "opencode server starting\n",
    "opencode server listening on http://127.0.0.1:4096\n",
    "warning: cannot open http://[ \n" }

IsSpace(c) == c \in {" ", "\n", "\t", "\r"}

\* Line 81: output.match(/https?:\/\/[^\s]+/) on texts that hold no
\* "https": <<>> for null, else <<match[0]>>, the first "http://" followed
\* by at least one character that is no white space, up to the next white
\* space.
RECURSIVE Match(_)
Match(output) ==
  LET i == IndexOf(output, "http://")
      from == i + Len("http://")
  IN  IF i = 0 THEN <<>>
      ELSE IF from > Len(output) \/ IsSpace(SubSeq(output, from, from))
        THEN Match(SubSeq(output, from, Len(output)))
      ELSE LET stops == { j \in from..Len(output) :
                            IsSpace(SubSeq(output, j, j)) }
               last == IF stops = {} THEN Len(output)
                       ELSE (CHOOSE j \in stops : \A k \in stops : j <= k) - 1
           IN  <<SubSeq(output, i, last)>>

IsDigits(s) == \A i \in 1..Len(s) : Includes("0123456789", SubSeq(s, i, i))

\* new URL(text) on texts that start with "http://": <<>> when it throws,
\* else the URL record.  The host ends at the first "/", the port follows
\* the ":" of the host, the default port 80 is dropped, an empty path is
\* "/", and a host that is empty or opens a bracket it does not close is
\* invalid.
ParseUrl(text) ==
  LET rest == SubSeq(text, Len("http://") + 1, Len(text))
      slash == IndexOf(rest, "/")
      authority == IF slash = 0 THEN rest ELSE SubSeq(rest, 1, slash - 1)
      pathname == IF slash = 0 THEN "/" ELSE SubSeq(rest, slash, Len(rest))
      colon == IndexOf(authority, ":")
      hostname == IF colon = 0 THEN authority
                  ELSE SubSeq(authority, 1, colon - 1)
      port == IF colon = 0 THEN ""
              ELSE SubSeq(authority, colon + 1, Len(authority))
  IN  IF \/ hostname = ""
         \/ Includes(hostname, "[")
         \/ ~IsDigits(port)
        THEN <<>>
        ELSE <<[protocol |-> "http:", hostname |-> hostname,
                port |-> IF port = "80" THEN "" ELSE port,
                pathname |-> pathname]>>

\* URL.prototype.toString().
Href(u) ==
  u.protocol \o "//" \o u.hostname
    \o (IF u.port = "" THEN "" ELSE ":" \o u.port) \o u.pathname

\* Lines 33-35: the URL of the proxy, with the workspace path.
ProxiedUrl(serverUrl, port) ==
  LET parsed == ParseUrl(serverUrl)[1]
      p == NumberToString(port)
  IN  Href([parsed EXCEPT !.port = IF p = "80" THEN "" ELSE p,
                          !.pathname = CwdPathname])

\* Lines 38-44: the URL of the server itself, with the workspace path when
\* it parses and as it is when it does not.
FallbackUrl(serverUrl) ==
  IF ParseUrl(serverUrl) = <<>> THEN serverUrl
  ELSE Href([ParseUrl(serverUrl)[1] EXCEPT !.pathname = CwdPathname])

\* The calls made on the view provider.
setServerUrl(url) == [fn |-> "setServerUrl", arg |-> url]

setError(message) == [fn |-> "setError", arg |-> message]

\* How many times dispose() is called.
MaxDisposes == 2

----------------------------------------------------------------------------
(* ServerManager: start, the child's events, the timer and dispose         *)

\* Lines 27-31 and 36-45: serveViaProxy up to its await.  A serverUrl that
\* does not parse throws at line 29 and the catch sets the fallback URL;
\* else startKeyboardProxy is called next, in the same turn.
serveViaProxy(serverUrl) ==
  /\ serveUrl' = serverUrl
  /\ IF ParseUrl(serverUrl) = <<>>
       THEN /\ serve' = "done"
            /\ providerCalls' =
                 Append(providerCalls, setServerUrl(FallbackUrl(serverUrl)))
       ELSE /\ serve' = "awaiting"
            /\ UNCHANGED providerCalls

\* Lines 72-76: onUrl.
onUrl(url) ==
  IF resolved
    THEN UNCHANGED <<resolved, serve, serveUrl, providerCalls>>
    ELSE /\ resolved' = TRUE
         /\ serveViaProxy(url)

\* serveViaProxy is in the turn that runs it: startKeyboardProxy is about
\* to be called, or its promise is settled and the continuation of the await
\* is queued.  That turn ends before any other event is handled.
InServeTurn == serve = "awaiting" /\ (call = <<>> \/ promise # "pending")

\* Lines 11-24: start is called.  Without a workspace folder it sets an
\* error and returns; else it awaits isServerAlive.
Start ==
  /\ started = "new"
  /\ \E folderOpen \in BOOLEAN :
       IF folderOpen
         THEN /\ started' = "probing"
              /\ UNCHANGED providerCalls
         ELSE /\ started' = "returned"
              /\ providerCalls' =
                   Append(providerCalls, setError("No workspace folder open."))
  /\ UNCHANGED <<resolved, child, exitCode, timer, serve, serveUrl,
                 serverProcess, proxyServer, disposes>>
  /\ UNCHANGED <<exchangeVars, tunnels, listenVars, earlier>>

\* Lines 50-54: isServerAlive answered true; the server of the last session
\* is served.
Reuse ==
  /\ started = "probing"
  /\ started' = "reusing"
  /\ serveViaProxy(existingUrl)
  /\ UNCHANGED <<resolved, child, exitCode, timer, serverProcess, proxyServer,
                 disposes>>
  /\ UNCHANGED <<exchangeVars, tunnels, listenVars, earlier>>

\* Lines 56-115: isServerAlive answered false; the process is spawned, the
\* listeners are registered and the timer is armed, or spawn throws and the
\* catch sets an error.
Spawn ==
  /\ started = "probing"
  /\ \E thrown \in BOOLEAN :
       IF thrown
         THEN /\ started' = "returned"
              /\ providerCalls' =
                   Append(providerCalls,
                          setError("Failed to start the OpenCode server."))
              /\ UNCHANGED <<resolved, child, timer, serverProcess>>
         ELSE /\ started' = "spawned"
              /\ serverProcess' = "set"
              /\ child' = "running"
              /\ resolved' = FALSE
              /\ timer' = "armed"
              /\ UNCHANGED providerCalls
  /\ UNCHANGED <<exitCode, serve, serveUrl, proxyServer, disposes>>
  /\ UNCHANGED <<exchangeVars, tunnels, listenVars, earlier>>

\* Lines 79-86: a chunk arrives on stdout or stderr.  The pipes of a child
\* that has exited may still deliver what it wrote.
handleOutput ==
  /\ child \in {"running", "killed", "exited"}
  /\ \E output \in Outputs :
       IF Match(output) = <<>>
         THEN UNCHANGED <<resolved, serve, serveUrl, providerCalls>>
         ELSE onUrl(Match(output)[1])
  /\ UNCHANGED <<started, child, exitCode, timer, serverProcess, proxyServer,
                 disposes>>
  /\ UNCHANGED <<exchangeVars, tunnels, listenVars, earlier>>

\* Lines 88-96: the child emits 'error' (it could not be spawned).
OnChildError ==
  /\ child = "running"
  /\ child' = "failed"
  /\ \E code \in {"ENOENT", "EACCES"} :
       IF resolved
         THEN UNCHANGED <<resolved, providerCalls>>
         ELSE /\ resolved' = TRUE
              /\ providerCalls' =
                   Append(providerCalls,
                     IF code = "ENOENT"
                       THEN setError("Could not find the <code>opencode</code> CLI.")
                       ELSE setError("Failed to start server: spawn " \o code))
  /\ UNCHANGED <<started, exitCode, timer, serve, serveUrl, serverProcess,
                 proxyServer, disposes>>
  /\ UNCHANGED <<exchangeVars, tunnels, listenVars, earlier>>

\* OnChildExit without the test of the flag.
OnChildExit_Unguarded ==
  /\ child \in {"running", "killed"}
  /\ child' = "exited"
  /\ \E code \in {"null", "0", "1"} :
       /\ exitCode' = code
       /\ IF code \in {"null", "0"}
            THEN UNCHANGED <<resolved, providerCalls>>
            ELSE /\ resolved' = TRUE
                 /\ providerCalls' =
                      Append(providerCalls,
                        setError("OpenCode server exited with code " \o code
                          \o ". Check that your opencode installation is working."))
  /\ UNCHANGED <<started, timer, serve, serveUrl, serverProcess, proxyServer,
                 disposes>>
  /\ UNCHANGED <<exchangeVars, tunnels, listenVars, earlier>>

\* Lines 98-107: the child emits 'exit', with a code or with null when a
\* signal ended it.
OnChildExit ==
  /\ child \in {"running", "killed"}
  /\ child' = "exited"
  /\ \E code \in {"null", "0", "1"} :
       /\ exitCode' = code
       /\ IF code \in {"null", "0"} \/ resolved
            THEN UNCHANGED <<resolved, providerCalls>>
            ELSE /\ resolved' = TRUE
                 /\ providerCalls' =
                      Append(providerCalls,
                        setError("OpenCode server exited with code " \o code
                          \o ". Check that your opencode installation is working."))
  /\ UNCHANGED <<started, timer, serve, serveUrl, serverProcess, proxyServer,
                 disposes>>
  /\ UNCHANGED <<exchangeVars, tunnels, listenVars, earlier>>

\* Lines 110-112: the timer fires, 5 s after the spawn.
OnTimeout ==
  /\ timer = "armed"
  /\ timer' = "fired"
  /\ onUrl(existingUrl)
  /\ UNCHANGED <<started, child, exitCode, serverProcess, proxyServer,
                 disposes>>
  /\ UNCHANGED <<exchangeVars, tunnels, listenVars, earlier>>

\* Line 31: serveViaProxy calls startKeyboardProxy(realPort), with no
\* proxyPort.
CallStartKeyboardProxy ==
  /\ serve = "awaiting"
  /\ StartKeyboardProxy
  /\ call' = << <<>> >>

\* The number of the call of start that is under way, and of its server.
Handle == Len(earlier) + 1

\* ServeResume with a catch that reports the failure instead of falling
\* back.
ServeResume_ErrorOnReject ==
  /\ serve = "awaiting"
  /\ promise # "pending"
  /\ serve' = "done"
  /\ IF promise = "resolved"
       THEN /\ proxyServer' = Handle
            /\ providerCalls' =
                 Append(providerCalls,
                        setServerUrl(ProxiedUrl(serveUrl, result[1].port)))
       ELSE /\ providerCalls' =
                 Append(providerCalls, setError("Failed to start the proxy."))
            /\ UNCHANGED proxyServer
  /\ started' = IF started = "reusing" THEN "returned" ELSE started
  /\ UNCHANGED <<resolved, child, exitCode, timer, serveUrl, serverProcess,
                 disposes>>
  /\ UNCHANGED <<exchangeVars, tunnels, listenVars, earlier>>

\* Lines 31-35 and 36-45: the await of line 31 is over.  With the result,
\* the server handle is stored and the proxied URL is set; with a rejection
\* the catch sets the fallback URL.  A start that awaited serveViaProxy
\* returns (line 53).
ServeResume ==
  /\ serve = "awaiting"
  /\ promise # "pending"
  /\ serve' = "done"
  /\ IF promise = "resolved"
       THEN /\ proxyServer' = Handle
            /\ providerCalls' =
                 Append(providerCalls,
                        setServerUrl(ProxiedUrl(serveUrl, result[1].port)))
       ELSE /\ providerCalls' =
                 Append(providerCalls, setServerUrl(FallbackUrl(serveUrl)))
            /\ UNCHANGED proxyServer
  /\ started' = IF started = "reusing" THEN "returned" ELSE started
  /\ UNCHANGED <<resolved, child, exitCode, timer, serveUrl, serverProcess,
                 disposes>>
  /\ UNCHANGED <<exchangeVars, tunnels, listenVars, earlier>>

\* Lines 118-127: dispose.  A stored server is closed and a stored process
\* is killed, and both fields are cleared.  close() ends the listening; a
\* killed process exits later.
dispose ==
  /\ disposes < MaxDisposes
  /\ disposes' = disposes + 1
  /\ IF proxyServer = 0
       THEN UNCHANGED <<server, earlier, proxyServer>>
       ELSE /\ proxyServer' = 0
            /\ IF proxyServer = Handle
                 THEN /\ server' = IF server = "listening" THEN "closed"
                                   ELSE server
                      /\ UNCHANGED earlier
                 ELSE /\ earlier' =
                           [earlier EXCEPT ![proxyServer] =
                              IF @ = "listening" THEN "closed" ELSE @]
                      /\ UNCHANGED server
  /\ IF serverProcess = "set"
       THEN /\ child' = IF child = "running" THEN "killed" ELSE child
            /\ serverProcess' = "undefined"
       ELSE UNCHANGED <<child, serverProcess>>
  /\ UNCHANGED <<started, resolved, exitCode, timer, serve, serveUrl,
                 providerCalls>>
  /\ UNCHANGED <<call, proxyPort, listens, boundPort, errorListener, promise,
                 settleCalls, bindErrors, result>>
  /\ UNCHANGED <<exchangeVars, tunnels>>

\* The manager with the proxy it starts: one start, the events of the child
\* and of the timer, the binding of the proxy, and dispose at any time.
ManagerNext ==
  \/ CallStartKeyboardProxy
  \/ ServeResume
  \/ ~InServeTurn /\ Start
  \/ ~InServeTurn /\ Reuse
  \/ ~InServeTurn /\ Spawn
  \/ ~InServeTurn /\ handleOutput
  \/ ~InServeTurn /\ OnChildError
  \/ ~InServeTurn /\ OnChildExit
  \/ ~InServeTurn /\ OnTimeout
  \/ ~InServeTurn /\ dispose
  \/ ~InServeTurn /\ OnListening
  \/ ~InServeTurn /\ OnBindError
  \/ ~InServeTurn /\ OnServerError

ManagerSpec == ProxyInit /\ [][ManagerNext]_vars

----------------------------------------------------------------------------
(* ServerManager.start: outcomes                                           *)

\* The calls of fn made on the view provider so far.
CallsOf(fn) ==
  { i \in 1..Len(providerCalls) : providerCalls[i].fn = fn }

\* C30: a start that spawned the process delivers at most one outcome to
\* the view provider, whatever the order of the URL matches, the 'error'
\* and 'exit' events and the timer: at most one call is made on it, the
\* proxy is started at most once, and once an error is set the proxy is
\* never started and no URL is served.
C30_AtMostOneOutcome ==
  started = "spawned" =>
    /\ Len(providerCalls) <= 1
    /\ Len(call) <= 1 /\ Len(listens) <= 1
    /\ CallsOf("setError") # {} => call = <<>> /\ serve = "none"

\* The URL was matched and served through the proxy, and afterwards the
\* process exited with a code other than 0 and the timer fired.
C30_Witness ==
  /\ started = "spawned"
  /\ resolved
  /\ Len(providerCalls) = 1
  /\ providerCalls[1].fn = "setServerUrl"
  /\ serveUrl = "http://127.0.0.1:4096"
  /\ call # <<>>
  /\ exitCode = "1"
  /\ timer = "fired"

----------------------------------------------------------------------------
(* Stopping the proxy                                                      *)

\* An exchange the proxy has accepted and not finished.
ExchangeInFlight == wireReq # <<>> /\ clientOpen /\ ~resEnded

\* A tunnel with a socket that is not closed.
TunnelOpen(t) ==
  \/ tunnels[t].clientSocket = "open"
  \/ tunnels[t].serverSocket \in {"connecting", "open"}

\* C21 (as claimed): once the proxy is stopped, the listening socket is
\* closed and so is every connection it accepted: no exchange is in flight
\* and no tunnel has an open socket.
C21_StopClosesConnections ==
  server = "closed" =>
    /\ ~ExchangeInFlight
    /\ upstream \notin {"connecting", "responding"}
    /\ \A t \in TunnelIds : ~TunnelOpen(t)

----------------------------------------------------------------------------
(* ServerManager: dispose and the proxy                                    *)

\* dispose ran after the process was spawned: the process exists and the
\* field that held it is cleared, which only dispose does (line 125).
DisposedAfterSpawn == child # "none" /\ serverProcess = "undefined"

\* C31 (as claimed): once dispose has run on a manager that spawned its
\* process, no proxy of that manager is listening, whether dispose ran
\* before the timer fired or while the proxy was binding.
C31_NoProxyAfterDispose ==
  DisposedAfterSpawn => server # "listening"

\* C32 (as claimed): once the process has exited with no URL served, no
\* later step serves one, the timer's included.
C32_NoUrlAfterExit ==
  [][ child = "exited" /\ serve = "none" => serve' = "none" ]_vars

----------------------------------------------------------------------------
(* serveViaProxy: the URL it sets                                          *)

\* What the view shows (main.ts, lines 68-98): the page of the last call
\* made on the provider, and the loading page before any call.
View ==
  IF providerCalls = <<>> THEN "loading"
  ELSE IF providerCalls[Len(providerCalls)].fn = "setError" THEN "error"
  ELSE "iframe"

\* The origins of the server URLs that parse, without the port.
ServerHosts == {"http://127.0.0.1", "http://localhost"}

\* The text of the port of the server and of the workspace path.
ServerPortText == ":4096"

WorkspacePath == "/L3c"

\* C33: a serveViaProxy that has ended has set exactly one server URL and
\* the view shows it: the URL with the proxy's port in place of the
\* server's when the proxy started, the server's own URL when starting the
\* proxy was rejected, and the text as it was matched when it does not
\* parse as a URL (the proxy is not started then).  URLs that parse get the
\* workspace path.
C33_ServeSetsOneUrl ==
  serve = "done" =>
    /\ Cardinality(CallsOf("setServerUrl")) = 1
    /\ View = "iframe"
    /\ LET url == providerCalls[CHOOSE i \in CallsOf("setServerUrl") : TRUE].arg
       IN  IF call = <<>>
             THEN /\ \A h \in ServerHosts : serveUrl # h \o ServerPortText
                  /\ url = serveUrl
           ELSE IF promise = "resolved"
             THEN /\ result[1].port = boundPort
                  /\ boundPort # targetPort
                  /\ \E h \in ServerHosts :
                       /\ serveUrl = h \o ServerPortText
                       /\ url = h \o ":" \o NumberToString(boundPort)
                                  \o WorkspacePath
           ELSE /\ promise = "rejected"
                /\ url = serveUrl \o WorkspacePath

\* Starting the proxy was rejected and the server's own URL was set.
C33_Witness ==
  /\ serve = "done"
  /\ promise = "rejected"
  /\ providerCalls = <<setServerUrl("http://127.0.0.1:4096/L3c")>>

----------------------------------------------------------------------------
(* ServerManager: start called again                                       *)

\* How many times start is called on one manager.
MaxStarts == 2

\* Lines 11-24: start is called on a manager whose last start has returned
\* (line 20, 53 or 115).  Nothing in start looks at what an earlier call
\* left: this.proxyServer keeps the handle it holds, and the server of the
\* earlier call goes on as it is.
StartAgain ==
  /\ started = "returned"
  /\ Handle < MaxStarts
  /\ earlier' = Append(earlier, server)
  /\ \E folderOpen \in BOOLEAN :
       IF folderOpen
         THEN /\ started' = "probing"
              /\ UNCHANGED providerCalls
         ELSE /\ started' = "returned"
              /\ providerCalls' =
                   Append(providerCalls, setError("No workspace folder open."))
  /\ serve' = "none"
  /\ serveUrl' = ""
  /\ call' = <<>>
  /\ proxyPort' = 0
  /\ listens' = <<>>
  /\ server' = "new"
  /\ boundPort' = 0
  /\ errorListener' = "fallback"
  /\ promise' = "pending"
  /\ settleCalls' = <<>>
  /\ bindErrors' = <<>>
  /\ result' = <<>>
  /\ UNCHANGED <<resolved, child, exitCode, timer, serverProcess, proxyServer,
                 disposes>>
  /\ UNCHANGED <<exchangeVars, tunnels>>

\* The manager, with start called up to MaxStarts times.
RestartNext ==
  \/ ManagerNext
  \/ ~InServeTurn /\ StartAgain

RestartSpec == ProxyInit /\ [][RestartNext]_vars

====
